---- MODULE Spec2Model ----
(***************************************************************************)
(* Model of the link scanner of clearout.bio:                              *)
(*   src/app/api/scan-links/route.ts  (POST, checkLink, extractLinks,      *)
(*                                     normalizeUrl, isValidUrl)           *)
(*   src/app/page.tsx                 (the client that shows a ScanResult) *)
(*                                                                         *)
(* A JavaScript string is modelled as a sequence of tokens (scheme names,  *)
(* ":", "/", host names, path segments), so that startsWith, string        *)
(* concatenation and string equality are what they are in the code.        *)
(* One action of the model is one run of the handler between two awaits    *)
(* (or one event of the environment: a response, a failure, a timer).      *)
(***************************************************************************)
EXTENDS Integers, Sequences, FiniteSets, TLC

VARIABLES
    pc,             \* where POST is suspended: "json", "fetch", "text", "probing", "done"
    reqBody,        \* the body of the incoming request
    url,            \* POST's local `url` (the page to scan)
    pageFetch,      \* the page fetch: "none", "pending", "resolved" (headers received),
                    \* "read" (body read), "failed", "aborted", "broken" (body stream broke)
    pageTimer,      \* the 15 s timer of POST: "unset", "armed", "cleared", "fired"
    pageStatus,     \* response.status of the page fetch, 0 before it resolves
    html,           \* POST's local html: the href attributes of the page's anchors
    extractedLinks, \* POST's local extractedLinks
    i,              \* the loop variable of POST's batch loop
    promise,        \* per link position: the promise of the checkLink call
    probeTimer,     \* per link position: the 10 s timer of the checkLink call
    linkResults,    \* POST's local linkResults
    requested,      \* every URL a HEAD request was issued to, in order of issue
    response,       \* the response of the endpoint, or NoResponse
    download        \* page.tsx: the links of the file the client exported, or NoDownload

vars == <<pc, reqBody, url, pageFetch, pageTimer, pageStatus, html, extractedLinks, i,
          promise, probeTimer, linkResults, requested, response, download>>

----------------------------------------------------------------------------
(* Bounds of the model *)

\* longest page whose anchors are chosen freely
MaxAnchors == 2
\* number of anchors of the longest page (more than one batch of probes)
MaxLongPage == 12

\* route.ts line 197
maxConcurrent == 10

----------------------------------------------------------------------------
(* Strings *)

startsWith(s, p) == Len(s) >= Len(p) /\ SubSeq(s, 1, Len(p)) = p

EmptyString == << >>

SpecialSchemes == {"http", "https", "ftp"}
OtherSchemes   == {"mailto", "tel", "javascript"}
Schemes        == SpecialSchemes \cup OtherSchemes

\* hosts of the modelled web; the host decides how a server answers
Hosts == {"ok.com", "gone.com", "moved.com", "found.com", "lost.com", "slow.com",
          "down.com", "bare.com"}

Abs(scheme, host, path) == <<scheme, ":", "/", "/", host>> \o path

hasScheme(s) == Len(s) >= 2 /\ s[1] \in Schemes /\ s[2] = ":"

RECURSIVE skipSlashes(_)
skipSlashes(s) == IF s # << >> /\ Head(s) = "/" THEN skipSlashes(Tail(s)) ELSE s

\* new URL(s): does the string parse as an absolute URL
canParse(s) ==
    /\ hasScheme(s)
    /\ s[1] \in SpecialSchemes =>
          LET rest == skipSlashes(SubSeq(s, 3, Len(s)))
          IN  rest # << >> /\ Head(rest) \in Hosts

\* new URL(s).href, for a string that parses
href(s) ==
    IF s[1] \in SpecialSchemes
    THEN LET rest == skipSlashes(SubSeq(s, 3, Len(s)))
             path == Tail(rest)
         IN  <<s[1], ":", "/", "/", Head(rest)>> \o (IF path = << >> THEN <<"/">> ELSE path)
    ELSE s

\* new URL(s).origin, for a string that parses
origin(s) ==
    IF s[1] \in {"http", "https"}
    THEN SubSeq(href(s), 1, 5)
    ELSE <<"null">>

\* new URL(s).hostname, for a string that parses with a special scheme
hostOf(s) == href(s)[5]

RECURSIVE lastSlash(_)
lastSlash(s) == IF s = << >> THEN 0
                ELSE IF s[Len(s)] = "/" THEN Len(s)
                ELSE lastSlash(SubSeq(s, 1, Len(s) - 1))

\* new URL(rel, base) succeeds
canResolve(rel, base) ==
    IF hasScheme(rel) THEN canParse(rel)
    ELSE canParse(base) /\ base[1] \in SpecialSchemes

\* new URL(rel, base).href, when it succeeds
resolve(rel, base) ==
    IF hasScheme(rel) THEN href(rel)
    ELSE IF rel = << >> THEN href(base)
    ELSE LET b == href(base)
         IN  SubSeq(b, 1, lastSlash(b)) \o rel

----------------------------------------------------------------------------
(* route.ts: isValidUrl, normalizeUrl, extractLinks *)

isValidUrl(string) == canParse(string)

normalizeUrlRootRelativeFirst(u, baseUrl) ==
    IF startsWith(u, <<"http", ":", "/", "/">>) \/ startsWith(u, <<"https", ":", "/", "/">>)
    THEN u
    ELSE IF startsWith(u, <<"/">>)
    THEN IF baseUrl # EmptyString
         THEN IF canParse(baseUrl) THEN origin(baseUrl) \o u ELSE u
         ELSE u
    ELSE IF startsWith(u, <<"/", "/">>)
    THEN <<"https", ":">> \o u
    ELSE IF baseUrl # EmptyString
    THEN IF canResolve(u, baseUrl) THEN resolve(u, baseUrl) ELSE u
    ELSE <<"https", ":", "/", "/">> \o u

normalizeUrl(u, baseUrl) ==
    IF startsWith(u, <<"http", ":", "/", "/">>) \/ startsWith(u, <<"https", ":", "/", "/">>)
    THEN u
    ELSE IF startsWith(u, <<"/", "/">>)
    THEN <<"https", ":">> \o u
    ELSE IF startsWith(u, <<"/">>)
    THEN IF baseUrl # EmptyString
         THEN IF canParse(baseUrl) THEN origin(baseUrl) \o u ELSE u
         ELSE u
    ELSE IF baseUrl # EmptyString
    THEN IF canResolve(u, baseUrl) THEN resolve(u, baseUrl) ELSE u
    ELSE <<"https", ":", "/", "/">> \o u

includesNever(links, x) == FALSE

includes(links, x) == \E k \in 1..Len(links) : links[k] = x

RECURSIVE extractFromDedupRaw(_, _, _)
extractFromDedupRaw(anchors, baseUrl, links) ==
    IF anchors = << >> THEN links
    ELSE LET hrefAttr      == Head(anchors)
             normalizedUrl == normalizeUrl(hrefAttr, baseUrl)
             keep == /\ hrefAttr # EmptyString
                     /\ isValidUrl(normalizedUrl)
                     /\ ~startsWith(normalizedUrl, <<"mailto", ":">>)
                     /\ ~startsWith(normalizedUrl, <<"tel", ":">>)
                     /\ ~includes(links, hrefAttr)
         IN  extractFromDedupRaw(Tail(anchors), baseUrl,
                                 IF keep THEN Append(links, normalizedUrl) ELSE links)

RECURSIVE extractFrom(_, _, _)
extractFrom(anchors, baseUrl, links) ==
    IF anchors = << >> THEN links
    ELSE LET hrefAttr      == Head(anchors)
             normalizedUrl == normalizeUrl(hrefAttr, baseUrl)
             keep == /\ hrefAttr # EmptyString
                     /\ isValidUrl(normalizedUrl)
                     /\ ~startsWith(normalizedUrl, <<"mailto", ":">>)
                     /\ ~startsWith(normalizedUrl, <<"tel", ":">>)
                     /\ ~includes(links, normalizedUrl)
         IN  extractFrom(Tail(anchors), baseUrl,
                         IF keep THEN Append(links, normalizedUrl) ELSE links)

\* the html document is given as the sequence of the href attributes of its a[href]
\* elements
extractLinks(anchors, baseUrl) == extractFrom(anchors, baseUrl, << >>)

----------------------------------------------------------------------------
(* The environment: what the network does with a request *)

AbortError  == [name |-> "AbortError",  message |-> "This operation was aborted"]
FetchFailed == [name |-> "TypeError",   message |-> "fetch failed"]
SyntaxError == [name |-> "SyntaxError", message |-> "Unexpected token in JSON"]
TypeError   == [name |-> "TypeError",   message |-> "Cannot destructure property 'url'"]

HttpResponse(u, status, statusText) == [url |-> u, status |-> status, statusText |-> statusText]

Landing == Abs("https", "ok.com", <<"/", "landing">>)

\* The responses fetch(u, {method: 'HEAD', redirect: 'follow'}) can resolve to.
\* response.url is the serialised URL the response was served from.
HeadResponses(u) ==
    IF ~canParse(u) \/ u[1] \notin {"http", "https"} THEN {}
    ELSE CASE hostOf(u) = "ok.com"    -> {HttpResponse(href(u), 200, "OK")}
           [] hostOf(u) = "gone.com"  -> {HttpResponse(href(u), 404, "Not Found")}
           [] hostOf(u) = "moved.com" -> {HttpResponse(Landing, 200, "")}
           [] hostOf(u) = "found.com" -> {HttpResponse(href(u), 302, "")}
           [] hostOf(u) = "lost.com"  -> {HttpResponse(Landing, 400, "")}
           [] hostOf(u) = "bare.com"  -> {HttpResponse(EmptyString, 200, "OK")}
           [] OTHER                   -> {}

\* The request fails in the transport (unsupported scheme, DNS, refused connection).
HeadFails(u) ==
    IF ~canParse(u) \/ u[1] \notin {"http", "https"} THEN TRUE
    ELSE hostOf(u) = "down.com"

\* The responses the GET of the page can resolve to (headers only).
PageResponses(u) ==
    IF ~canParse(u) \/ u[1] \notin {"http", "https"} THEN {}
    ELSE {HttpResponse(href(u), 200, "OK"), HttpResponse(href(u), 404, "Not Found")}

----------------------------------------------------------------------------
(* route.ts: getStatusText, checkLink *)

getStatusText(status) ==
    CASE status = 200 -> "OK"
      [] status = 201 -> "Created"
      [] status = 301 -> "Moved Permanently"
      [] status = 302 -> "Found"
      [] status = 304 -> "Not Modified"
      [] status = 400 -> "Bad Request"
      [] status = 401 -> "Unauthorized"
      [] status = 403 -> "Forbidden"
      [] status = 404 -> "Not Found"
      [] status = 500 -> "Internal Server Error"
      [] status = 502 -> "Bad Gateway"
      [] status = 503 -> "Service Unavailable"
      [] OTHER        -> "Unknown"

\* a || b on URL strings (token sequences): the empty string is falsy
urlOr(a, b) == IF a # EmptyString THEN a ELSE b

\* a || b on status texts: the empty string is falsy
textOr(a, b) == IF a # "" THEN a ELSE b

isRedirectOf(u, resp) == resp.url # u

isWorkingOnlyOk(resp) == resp.status >= 200 /\ resp.status <= 299

isWorkingOf(resp) == resp.status >= 200 /\ resp.status < 400

\* checkLink, lines 75-88: the fetch resolved
checkLinkResponse(u, resp) ==
    [originalUrl |-> u,
     finalUrl    |-> urlOr(resp.url, u),
     status      |-> resp.status,
     statusText  |-> textOr(resp.statusText, getStatusText(resp.status)),
     isWorking   |-> isWorkingOf(resp),
     isRedirect  |-> isRedirectOf(u, resp)]

checkLinkCatchTimeoutStatus(u, error) ==
    [originalUrl |-> u,
     finalUrl    |-> u,
     status      |-> IF error.name = "AbortError" THEN 408 ELSE 0,
     statusText  |-> error.message,
     isWorking   |-> FALSE,
     isRedirect  |-> FALSE]

\* checkLink, lines 89-101: the fetch rejected
checkLinkCatch(u, error) ==
    [originalUrl |-> u,
     finalUrl    |-> u,
     status      |-> 0,
     statusText  |-> error.message,
     isWorking   |-> FALSE,
     isRedirect  |-> FALSE]

Idle         == [state |-> "idle"]
Pending      == [state |-> "pending"]
Fulfilled(v) == [state |-> "fulfilled", value |-> v]
Rejected(e)  == [state |-> "rejected", reason |-> e]

\* what the promise of checkLink(u) settles to when its fetch resolves
checkLinkOnResponse(u, resp) == Fulfilled(checkLinkResponse(u, resp))

checkLinkOnErrorUncaught(u, error) == Rejected(error)

\* what the promise of checkLink(u) settles to when its fetch rejects
checkLinkOnError(u, error) == Fulfilled(checkLinkCatch(u, error))

----------------------------------------------------------------------------
(* The inputs: request bodies and pages *)

PageUrl == Abs("https", "ok.com", <<"/", "x", "/", "y">>)

JsonUrl(type, val) == [type |-> type, val |-> val]

\* the value of the url property of the parsed JSON body
UrlValues ==
    { JsonUrl("undefined", EmptyString),
      JsonUrl("number", EmptyString),
      JsonUrl("string", EmptyString),
      JsonUrl("string", <<"ok.com">>),
      JsonUrl("string", <<"mailto", ":", "x">>),
      JsonUrl("string", PageUrl) }

RequestBodies ==
    { [kind |-> "malformed", url |-> JsonUrl("undefined", EmptyString)],
      [kind |-> "null",      url |-> JsonUrl("undefined", EmptyString)] }
    \cup { [kind |-> "object", url |-> v] : v \in UrlValues }

\* href attributes an anchor of a page can carry
Hrefs ==
    { Abs("https", "ok.com", <<"/", "a">>),
      Abs("http", "gone.com", <<"/", "a">>),
      <<"/", "/", "moved.com", "/", "a">>,
      Abs("https", "found.com", << >>),
      Abs("https", "lost.com", <<"/", "a">>),
      Abs("https", "slow.com", <<"/", "a">>),
      Abs("https", "down.com", <<"/", "a">>),
      Abs("https", "bare.com", <<"/", "a">>),
      <<"/", "a">>,
      <<"rel">>,
      <<"mailto", ":", "x">>,
      <<"tel", ":", "x">>,
      <<"javascript", ":", "x">>,
      <<"https", ":", "/", "/">>,
      <<"ftp", ":", "/", "/">>,
      EmptyString }

\* the hosts of the anchors of the long page, in order (every other one never answers)
HostSeq == <<"ok.com", "slow.com", "down.com", "slow.com", "moved.com", "slow.com",
             "gone.com", "slow.com", "bare.com", "slow.com", "found.com", "lost.com">>
\* the k-th anchor of the long page: a URL of its own
LongAnchor(k) ==
    Abs("https", HostSeq[((k - 1) % Len(HostSeq)) + 1], <<"/", ToString(k)>>)

LongPage(n) == [k \in 1..n |-> LongAnchor(k)]

\* the page of the end-to-end example: a 200 link, a 404 link, a 301 -> 200 link
ExamplePage == << Abs("https", "ok.com", <<"/", "a">>),
                  Abs("https", "gone.com", <<"/", "a">>),
                  Abs("https", "moved.com", <<"/", "a">>) >>

\* a page is the sequence of the href attributes of its a[href] elements
Pages ==
    UNION { [1..n -> Hrefs] : n \in 0..MaxAnchors }
    \cup { ExamplePage }
    \cup { LongPage(n) : n \in maxConcurrent..MaxLongPage }

----------------------------------------------------------------------------
(* route.ts: POST *)

NoResult == [totalLinks |-> 0, workingLinks |-> 0, brokenLinks |-> 0, redirects |-> 0,
             links |-> << >>]

NoResponse == [status |-> 0, error |-> "", result |-> NoResult]

\* NextResponse.json({ error }, { status })
jsonError(status, error) == [status |-> status, error |-> error, result |-> NoResult]

\* NextResponse.json(result)
jsonResult(result) == [status |-> 200, error |-> "", result |-> result]

postCatchAnyFetchError(error) ==
    IF error.name \in {"AbortError", "TypeError"}
    THEN jsonError(408, "Request timeout - the URL took too long to respond")
    ELSE jsonError(500, "Internal server error")

\* lines 223-237: the catch block of POST
postCatch(error) ==
    IF error.name = "AbortError"
    THEN jsonError(408, "Request timeout - the URL took too long to respond")
    ELSE jsonError(500, "Internal server error")

\* line 178: the error message of the 400 for a page that answers a non-success status
fetchFailedMessage(resp) ==
    "Failed to fetch URL: " \o ToString(resp.status) \o " " \o resp.statusText

noLinksResponseError == jsonError(404, "No links found")

\* lines 186-194: the response for a page without links
noLinksResponse == jsonResult(NoResult)

\* page.tsx: nothing was exported
NoDownload == << <<"no download">> >>

okBelow500(resp) == resp.status >= 200 /\ resp.status <= 499

\* response.ok
ok(resp) == resp.status >= 200 /\ resp.status <= 299

min(a, b) == IF a < b THEN a ELSE b

\* s.slice(from, to), with 0-based bounds
slice(s, from, to) == SubSeq(s, from + 1, min(to, Len(s)))

batchWholeRest(links, from) == slice(links, from, Len(links))

\* line 201
batch(links, from) == slice(links, from, from + maxConcurrent)

\* the positions (1-based) of the links of the batch that starts at `from`
batchPositions(links, from) == (from + 1)..(from + Len(batch(links, from)))

promiseAllReversed(promises, from, len) ==
    [j \in 1..len |-> promises[from + len + 1 - j].value]

\* what Promise.all resolves to: the values by position in the batch
promiseAll(promises, from, len) == [j \in 1..len |-> promises[from + j].value]

pushResultsInFront(results, batchResults) == batchResults \o results

\* line 205
pushResults(results, batchResults) == results \o batchResults

scanResultRedirectsInWorking(results) ==
    [totalLinks   |-> Len(results),
     workingLinks |-> Len(SelectSeq(results, LAMBDA link : link.isWorking)),
     brokenLinks  |-> Len(SelectSeq(results, LAMBDA link : ~link.isWorking)),
     redirects    |-> Len(SelectSeq(results, LAMBDA link : link.isRedirect /\ link.isWorking)),
     links        |-> results]

scanResultRedirectsAnyStatus(results) ==
    [totalLinks   |-> Len(results),
     workingLinks |-> Len(SelectSeq(results, LAMBDA link : link.isWorking /\ ~link.isRedirect)),
     brokenLinks  |-> Len(SelectSeq(results, LAMBDA link : ~link.isWorking)),
     redirects    |-> Len(SelectSeq(results, LAMBDA link : link.isRedirect)),
     links        |-> results]

\* lines 208-219
scanResult(results) ==
    [totalLinks   |-> Len(results),
     workingLinks |-> Len(SelectSeq(results, LAMBDA link : link.isWorking /\ ~link.isRedirect)),
     brokenLinks  |-> Len(SelectSeq(results, LAMBDA link : ~link.isWorking)),
     redirects    |-> Len(SelectSeq(results, LAMBDA link : link.isRedirect /\ link.isWorking)),
     links        |-> results]

Respond(r) == pc' = "done" /\ response' = r

\* lines 202-203: batch.map(link => checkLink(link)) up to each call's await
StartBatch(links, from, promises, timers) ==
    /\ promise'    = [k \in 1..Len(links) |->
                        IF k \in batchPositions(links, from) THEN Pending ELSE promises[k]]
    /\ probeTimer' = [k \in 1..Len(links) |->
                        IF k \in batchPositions(links, from) THEN "armed" ELSE timers[k]]
    /\ requested'  = requested \o batch(links, from)

Init ==
    /\ pc = "json"
    /\ reqBody \in RequestBodies
    /\ url = EmptyString
    /\ pageFetch = "none"
    /\ pageTimer = "unset"
    /\ pageStatus = 0
    /\ html = << >>
    /\ download = NoDownload
    /\ extractedLinks = << >>
    /\ i = 0
    /\ promise = << >>
    /\ probeTimer = << >>
    /\ linkResults = << >>
    /\ requested = << >>
    /\ response = NoResponse

\* lines 146-172: request.json() settles, validation, the page fetch is issued
ParseBody ==
    /\ pc = "json"
    /\ IF reqBody.kind = "malformed"
       THEN Respond(postCatch(SyntaxError)) /\ UNCHANGED <<url, pageFetch, pageTimer>>
       ELSE IF reqBody.kind = "null"
       THEN Respond(postCatch(TypeError)) /\ UNCHANGED <<url, pageFetch, pageTimer>>
       ELSE IF reqBody.url.type # "string" \/ reqBody.url.val = EmptyString
       THEN /\ Respond(jsonError(400, "URL is required"))
            /\ url' = IF reqBody.url.type = "string" THEN reqBody.url.val ELSE url
            /\ UNCHANGED <<pageFetch, pageTimer>>
       ELSE IF ~isValidUrl(reqBody.url.val)
       THEN /\ Respond(jsonError(400, "Invalid URL format"))
            /\ url' = reqBody.url.val
            /\ UNCHANGED <<pageFetch, pageTimer>>
       ELSE /\ url' = reqBody.url.val
            /\ pageTimer' = "armed"
            /\ pageFetch' = "pending"
            /\ pc' = "fetch"
            /\ UNCHANGED response
    /\ UNCHANGED <<download, html, pageStatus, reqBody, extractedLinks, i, promise, probeTimer, linkResults, requested>>

\* lines 167-181: the page fetch resolves with the response headers
PageResponds ==
    /\ pc = "fetch"
    /\ pageFetch = "pending"
    /\ \E resp \in PageResponses(url) :
          /\ pageFetch' = "resolved"
          /\ pageTimer' = "cleared"
          /\ pageStatus' = resp.status
          /\ IF ~ok(resp)
             THEN Respond(jsonError(400, fetchFailedMessage(resp)))
             ELSE pc' = "text" /\ UNCHANGED response
    /\ UNCHANGED <<download, html, reqBody, url, extractedLinks, i, promise, probeTimer, linkResults,
                   requested>>

\* line 167 rejects with a network error: lines 223-236
PageFetchFails ==
    /\ pc = "fetch"
    /\ pageFetch = "pending"
    /\ pageFetch' = "failed"
    /\ Respond(postCatch(FetchFailed))
    /\ UNCHANGED <<download, html, pageStatus, reqBody, url, pageTimer, extractedLinks, i, promise, probeTimer,
                   linkResults, requested>>

\* line 165: the 15 s timer fires and aborts the controller of the page fetch
PageTimerFires ==
    /\ pageTimer = "armed"
    /\ pageTimer' = "fired"
    /\ IF pageFetch = "pending"
       THEN pageFetch' = "aborted" /\ Respond(postCatch(AbortError))
       ELSE UNCHANGED <<pageFetch, pc, response>>
    /\ UNCHANGED <<download, html, pageStatus, reqBody, url, extractedLinks, i, promise, probeTimer, linkResults,
                   requested>>

\* lines 183-203: response.text() resolves; extraction; the first batch starts
PageBodyArrives ==
    /\ pc = "text"
    /\ \E text \in Pages :
          LET links == extractLinks(text, url)
          IN  /\ html' = text
              /\ pageFetch' = "read"
              /\ extractedLinks' = links
              /\ IF Len(links) = 0
                 THEN /\ Respond(noLinksResponse)
                      /\ UNCHANGED <<promise, probeTimer, requested>>
                 ELSE /\ pc' = "probing"
                      /\ StartBatch(links, 0, [k \in 1..Len(links) |-> Idle],
                                    [k \in 1..Len(links) |-> "unset"])
                      /\ UNCHANGED response
    /\ UNCHANGED <<download, pageStatus, reqBody, url, pageTimer, i, linkResults>>

\* line 183 rejects (the body stream breaks): lines 223-236
PageBodyFails ==
    /\ pc = "text"
    /\ pageFetch' = "broken"
    /\ Respond(postCatch(FetchFailed))
    /\ UNCHANGED <<download, html, pageStatus, reqBody, url, pageTimer, extractedLinks, i, promise,
                   probeTimer, linkResults, requested>>

\* checkLink lines 65-88: the HEAD request of link k resolves
ProbeResponds(k) ==
    /\ promise[k].state = "pending"
    /\ \E resp \in HeadResponses(extractedLinks[k]) :
          promise' = [promise EXCEPT ![k] = checkLinkOnResponse(extractedLinks[k], resp)]
    /\ probeTimer' = [probeTimer EXCEPT ![k] = "cleared"]
    /\ UNCHANGED <<download, html, pageStatus, pc, reqBody, url, pageFetch, pageTimer, extractedLinks, i, linkResults,
                   requested, response>>

\* checkLink lines 65, 89-101: the HEAD request of link k rejects with a network error
ProbeFails(k) ==
    /\ promise[k].state = "pending"
    /\ HeadFails(extractedLinks[k])
    /\ promise' = [promise EXCEPT ![k] = checkLinkOnError(extractedLinks[k], FetchFailed)]
    /\ UNCHANGED <<download, html, pageStatus, pc, reqBody, url, pageFetch, pageTimer, extractedLinks, i, probeTimer,
                   linkResults, requested, response>>

ProbeTimerFiresSharedController(k) ==
    /\ probeTimer[k] = "armed"
    /\ probeTimer' = [probeTimer EXCEPT ![k] = "fired"]
    /\ promise' = [j \in 1..Len(promise) |->
                      IF promise[j].state = "pending"
                      THEN checkLinkOnError(extractedLinks[j], AbortError)
                      ELSE promise[j]]
    /\ UNCHANGED <<download, html, pageStatus, pc, reqBody, url, pageFetch, pageTimer, extractedLinks, i, linkResults,
                   requested, response>>

\* checkLink line 63: the 10 s timer of link k fires and aborts its controller
ProbeTimerFires(k) ==
    /\ probeTimer[k] = "armed"
    /\ probeTimer' = [probeTimer EXCEPT ![k] = "fired"]
    /\ IF promise[k].state = "pending"
       THEN promise' = [promise EXCEPT ![k] = checkLinkOnError(extractedLinks[k], AbortError)]
       ELSE UNCHANGED promise
    /\ UNCHANGED <<download, html, pageStatus, pc, reqBody, url, pageFetch, pageTimer, extractedLinks, i, linkResults,
                   requested, response>>

BatchSettlesAtFirstResult ==
    /\ pc = "probing"
    /\ LET at   == batchPositions(extractedLinks, i)
           all  == [j \in 1..Cardinality(at) |-> promise[i + j]]
           done == SelectSeq(all, LAMBDA p : p.state = "fulfilled")
           results == pushResults(linkResults, [j \in 1..Len(done) |-> done[j].value])
           next == i + maxConcurrent
       IN  /\ done # << >>
           /\ linkResults' = results
           /\ i' = next
           /\ IF next < Len(extractedLinks)
              THEN /\ StartBatch(extractedLinks, next, promise, probeTimer)
                   /\ UNCHANGED <<pc, response>>
              ELSE /\ Respond(jsonResult(scanResult(results)))
                   /\ UNCHANGED <<promise, probeTimer, requested>>
    /\ UNCHANGED <<download, html, pageStatus, reqBody, url, pageFetch, pageTimer, extractedLinks>>

\* lines 200-221: Promise.all settles; the results are pushed; the next batch starts
\* or the statistics are computed and the response is sent
BatchSettles ==
    /\ pc = "probing"
    /\ LET at       == batchPositions(extractedLinks, i)
           rejected == {k \in at : promise[k].state = "rejected"}
       IN  /\ rejected # {} \/ \A k \in at : promise[k].state = "fulfilled"
           /\ IF rejected # {}
              THEN /\ Respond(postCatch(promise[CHOOSE k \in rejected : TRUE].reason))
                   /\ UNCHANGED <<i, promise, probeTimer, linkResults, requested>>
              ELSE LET batchResults == promiseAll(promise, i, Cardinality(at))
                       results      == pushResults(linkResults, batchResults)
                       next         == i + maxConcurrent
                   IN  /\ linkResults' = results
                       /\ i' = next
                       /\ IF next < Len(extractedLinks)
                          THEN /\ StartBatch(extractedLinks, next, promise, probeTimer)
                               /\ UNCHANGED <<pc, response>>
                          ELSE /\ Respond(jsonResult(scanResult(results)))
                               /\ UNCHANGED <<promise, probeTimer, requested>>
    /\ UNCHANGED <<download, html, pageStatus, reqBody, url, pageFetch, pageTimer, extractedLinks>>

exportAsHTMLOriginalUrl(result) ==
    LET workingLinks == SelectSeq(result.links, LAMBDA link : link.isWorking)
    IN  [k \in 1..Len(workingLinks) |-> workingLinks[k].originalUrl]

\* page.tsx lines 66-69: the href of the anchors of the exported file
exportAsHTML(result) ==
    LET workingLinks == SelectSeq(result.links, LAMBDA link : link.isWorking)
    IN  [k \in 1..Len(workingLinks) |-> workingLinks[k].finalUrl]

\* page.tsx lines 93-101: the label of the row of a link
getStatusLabel(link) ==
    IF link.isWorking /\ ~link.isRedirect THEN "Working"
    ELSE IF link.isRedirect THEN "Redirect"
    ELSE "Broken"

\* page.tsx lines 55, 63-81: the client holds the result of the scan and exports it
ExportAsHTML ==
    /\ response.status = 200
    /\ download = NoDownload
    /\ download' = exportAsHTML(response.result)
    /\ UNCHANGED <<pc, reqBody, url, pageFetch, pageTimer, pageStatus, html, extractedLinks,
                   i, promise, probeTimer, linkResults, requested, response>>

Next ==
    \/ ParseBody
    \/ PageResponds
    \/ PageFetchFails
    \/ PageTimerFires
    \/ PageBodyArrives
    \/ PageBodyFails
    \/ \E k \in 1..Len(extractedLinks) : ProbeResponds(k)
    \/ \E k \in 1..Len(extractedLinks) : ProbeFails(k)
    \/ \E k \in 1..Len(extractedLinks) : ProbeTimerFires(k)
    \/ BatchSettles
    \/ ExportAsHTML

Spec == Init /\ [][Next]_vars

----------------------------------------------------------------------------
(* Properties of the scan *)

Positions == 1..Len(extractedLinks)

\* the positions whose checkLink call has returned a LinkResult
Returned == {k \in 1..Len(promise) : promise[k].state = "fulfilled"}

\* the positions whose HEAD request is issued and not completed
InFlight == {k \in 1..Len(promise) : promise[k].state = "pending"}

\* the positions whose HEAD request ended in a transport failure or in an abort
\* (a request that got a response clears its timer)
Failed == {k \in 1..Len(promise) :
              promise[k].state \in {"fulfilled", "rejected"} /\ probeTimer[k] # "cleared"}

occurrences(s, x) == Cardinality({k \in 1..Len(s) : s[k] = x})

Responded == response.status # 0

\* C1: the links of a returned ScanResult are as many as the extracted URLs, and the
\* k-th LinkResult is the result of the k-th extracted URL, whatever the order in which
\* the probes of a batch completed.
C1_ResultsByPosition ==
    response.status = 200 =>
        /\ Len(response.result.links) = Len(extractedLinks)
        /\ \A k \in Positions : response.result.links[k].originalUrl = extractedLinks[k]

\* a scan of more than one batch returned, with responses and failures among its links
C1_Witness ==
    /\ response.status = 200
    /\ Len(response.result.links) > maxConcurrent
    /\ \E k \in Positions : response.result.links[k].status = 200
    /\ \E k \in Positions : response.result.links[k].status = 0

\* C2: no URL is requested twice, and when the scan returns every extracted URL has
\* been requested exactly once and has exactly one LinkResult.
C2_ProbedExactlyOnce ==
    /\ \A k \in 1..Len(requested) : occurrences(requested, requested[k]) = 1
    /\ response.status = 200 =>
          \A k \in Positions :
             /\ occurrences(requested, extractedLinks[k]) = 1
             /\ Cardinality({j \in 1..Len(response.result.links) :
                    response.result.links[j].originalUrl = extractedLinks[k]}) = 1

\* a scan of several links returned although probes failed and timed out
C2_Witness ==
    /\ response.status = 200
    /\ Len(extractedLinks) >= 2
    /\ \E k \in Positions : probeTimer[k] = "fired"
    /\ \E k \in Positions : probeTimer[k] = "armed"

\* C3: once links were extracted, no checkLink promise rejects and the only response
\* the endpoint gives is a 200 with a ScanResult of all the links.
C3_ProbeFailuresAbsorbed ==
    /\ \A k \in 1..Len(promise) : promise[k].state # "rejected"
    /\ (Responded /\ Len(extractedLinks) > 0) =>
          /\ response.status = 200
          /\ response.result.totalLinks = Len(extractedLinks)

\* a scan answered 200 where one probe got a 4xx, one a network error and one timed out
C3_Witness ==
    /\ response.status = 200
    /\ \E k \in Positions : response.result.links[k].status >= 400
    /\ \E k \in Positions : response.result.links[k].statusText = FetchFailed.message
    /\ \E k \in Positions : response.result.links[k].statusText = AbortError.message

\* C4: at most maxConcurrent (10) probes are in flight at any moment.
C4_AtMostTenInFlight == Cardinality(InFlight) <= maxConcurrent

\* a page of more than ten links with ten probes in flight
C4_Witness ==
    /\ Len(extractedLinks) > maxConcurrent
    /\ Cardinality(InFlight) = maxConcurrent

countWhere(links, Test(_)) == Cardinality({k \in 1..Len(links) : Test(links[k])})

\* the three links of the example page answered 200, 404 and 301 -> 200
ExampleAnswered ==
    /\ extractedLinks = ExamplePage
    /\ \A k \in 1..3 : promise[k].state = "fulfilled"
    /\ promise[1].value.status = 200 /\ ~promise[1].value.isRedirect
    /\ promise[2].value.status = 404
    /\ promise[3].value.status = 200 /\ promise[3].value.isRedirect

\* C5: a returned ScanResult has totalLinks = links.length, its three counts are the
\* sizes of the three classes of links and add up to totalLinks; the page whose three
\* links answer 200, 404 and 301 -> 200 gives 3, 1, 1, 1.
C5_CountsPartition ==
    response.status = 200 =>
        LET r == response.result
        IN  /\ r.totalLinks = Len(r.links)
            /\ r.workingLinks + r.redirects + r.brokenLinks = r.totalLinks
            /\ r.workingLinks = countWhere(r.links, LAMBDA l : l.isWorking /\ ~l.isRedirect)
            /\ r.redirects    = countWhere(r.links, LAMBDA l : l.isWorking /\ l.isRedirect)
            /\ r.brokenLinks  = countWhere(r.links, LAMBDA l : ~l.isWorking)
            /\ ExampleAnswered =>
                  /\ r.totalLinks = 3
                  /\ r.workingLinks = 1
                  /\ r.redirects = 1
                  /\ r.brokenLinks = 1

\* the example page was scanned and its three links answered 200, 404 and 301 -> 200
C5_Witness ==
    /\ response.status = 200
    /\ ExampleAnswered
    /\ response.result.totalLinks = 3

\* C6 as stated: a returned ScanResult has workingLinks + brokenLinks = totalLinks.
C6_Original ==
    response.status = 200 =>
        response.result.workingLinks + response.result.brokenLinks
            = response.result.totalLinks

\* C6 as amended: workingLinks + brokenLinks = totalLinks - redirects; redirects are
\* counted apart from workingLinks, so the two add up to totalLinks only when no link
\* is a working redirect.
C6_RedirectsApart ==
    response.status = 200 =>
        LET r == response.result
        IN  /\ r.workingLinks + r.brokenLinks = r.totalLinks - r.redirects
            /\ r.workingLinks + r.brokenLinks = r.totalLinks
                  <=> ~\E k \in 1..Len(r.links) : r.links[k].isWorking /\ r.links[k].isRedirect

\* a returned ScanResult with a working redirect, a working link and a broken link
C6_Witness ==
    /\ response.status = 200
    /\ response.result.redirects > 0
    /\ response.result.workingLinks > 0
    /\ response.result.brokenLinks > 0

\* C7 as stated: every LinkResult has isRedirect iff finalUrl differs from originalUrl.
C7_RedirectIffFinalDiffers ==
    \A k \in Returned :
        promise[k].value.isRedirect <=> promise[k].value.finalUrl # promise[k].value.originalUrl

\* C8: every LinkResult has isWorking iff 200 <= status < 400; a 200 served from the
\* probed URL is working and no redirect, a 200 served from another URL is working
\* and a redirect, a status of 400 or more is not working.
C8_WorkingIffStatus ==
    \A k \in Returned :
        LET v == promise[k].value
            u == extractedLinks[k]
        IN  /\ v.isWorking <=> (v.status >= 200 /\ v.status < 400)
            /\ v.status >= 400 => ~v.isWorking
            /\ v.status # 0 =>
                  \E resp \in HeadResponses(u) :
                     /\ v.status = resp.status
                     /\ (resp.status = 200 /\ resp.url = u) => (v.isWorking /\ ~v.isRedirect)
                     /\ (resp.status = 200 /\ resp.url \notin {u, EmptyString})
                           => (v.isWorking /\ v.isRedirect)

\* probes returned for a 200 from the probed URL, a 200 from another URL, a 302 and
\* a 404
C8_Witness ==
    /\ \E k \in Returned : promise[k].value.status = 200 /\ ~promise[k].value.isRedirect
    /\ \E k \in Returned : promise[k].value.status = 200 /\ promise[k].value.isRedirect
                              /\ promise[k].value.finalUrl = Landing
    /\ \E k \in Returned : promise[k].value.status = 302
    /\ \E k \in Returned : promise[k].value.status = 404

\* C9: a probe that ends in a transport failure or in the abort of its timeout
\* returns status 0, finalUrl = the probed url, isWorking and isRedirect false, and
\* is counted in brokenLinks.
C9_FailureIsBroken ==
    /\ \A k \in Failed :
          /\ promise[k].state = "fulfilled"
          /\ promise[k].value.originalUrl = extractedLinks[k]
          /\ promise[k].value.finalUrl = extractedLinks[k]
          /\ promise[k].value.status = 0
          /\ ~promise[k].value.isWorking
          /\ ~promise[k].value.isRedirect
    /\ response.status = 200 =>
          /\ \A k \in Failed : response.result.links[k] = promise[k].value
          /\ response.result.brokenLinks >= Cardinality(Failed)

\* a scan returned where one probe was aborted by its timer and another failed in
\* the transport
C9_Witness ==
    /\ response.status = 200
    /\ \E k \in Failed : promise[k].value.statusText = AbortError.message
    /\ \E k \in Failed : promise[k].value.statusText = FetchFailed.message

\* C10: the endpoint answers 408 exactly when the page fetch was aborted by the
\* 15 s timer.
C10_TimeoutIffPageAborted ==
    /\ pageFetch = "aborted" => response.status = 408
    /\ response.status = 408 => pageFetch = "aborted"

\* the 15 s timer aborted the page fetch and the endpoint answered
C10_Witness ==
    /\ pageFetch = "aborted"
    /\ pageTimer = "fired"
    /\ Responded

\* C11 as stated: no scan waits forever: whenever POST waits for the network (the
\* headers of the page, its body, a probe) the timer that aborts that wait is armed.
C11_EveryWaitHasItsTimer ==
    /\ pc = "fetch"   => pageTimer = "armed"
    /\ pc = "text"    => pageTimer = "armed"
    /\ pc = "probing" => \A k \in InFlight : probeTimer[k] = "armed"

\* the request carries no usable url
Unusable(body) ==
    \/ body.kind # "object"
    \/ body.url.type # "string"
    \/ body.url.val = EmptyString
    \/ ~isValidUrl(body.url.val)

\* C12 as stated: a request without a usable url is answered 400 with an error body,
\* and neither the page fetch nor a probe is issued for it.
C12_UnusableUrlIs400 ==
    Unusable(reqBody) =>
        /\ pageFetch = "none"
        /\ requested = << >>
        /\ Responded => (response.status = 400 /\ response.error # "")

okStatus(status) == status >= 200 /\ status <= 299

\* C13: a probe is started only after the page answered a success status and its
\* links were extracted; a page that answers a non-success status gives a 400 that
\* carries the status and no probe; a page fetch that fails or times out gives no
\* probe.
C13_ProbesOnlyAfterPage ==
    /\ (requested # << >> \/ promise # << >>) =>
          /\ pageFetch = "read"
          /\ okStatus(pageStatus)
          /\ \A k \in 1..Len(requested) : \E j \in Positions : extractedLinks[j] = requested[k]
    /\ (pageStatus # 0 /\ ~okStatus(pageStatus)) =>
          /\ response.status = 400
          /\ pageStatus = 404 => response.error = "Failed to fetch URL: 404 Not Found"
          /\ requested = << >>
          /\ promise = << >>
    /\ pageFetch \in {"failed", "aborted", "broken"} =>
          /\ requested = << >>
          /\ promise = << >>

\* the page answered 404 and the endpoint answered
C13_Witness ==
    /\ pageStatus = 404
    /\ Responded
    /\ requested = << >>

\* C14: a page without extractable links is answered 200 with all counts 0 and no
\* links, and no probe is started.
C14_NoLinksIsEmptyResult ==
    /\ pc = "probing" => extractedLinks # << >>
    /\ (pageFetch = "read" /\ extractedLinks = << >>) =>
          /\ response.status = 200
          /\ response.result.totalLinks = 0
          /\ response.result.workingLinks = 0
          /\ response.result.brokenLinks = 0
          /\ response.result.redirects = 0
          /\ response.result.links = << >>
          /\ requested = << >>
          /\ promise = << >>

\* a page whose anchors are all discarded was scanned
C14_Witness ==
    /\ pageFetch = "read"
    /\ html # << >>
    /\ extractedLinks = << >>
    /\ Responded

\* C15 as stated: every extracted URL, and every probed URL, has the scheme http or
\* https.
C15_OnlyHttpLinks ==
    /\ \A k \in Positions : extractedLinks[k][1] \in {"http", "https"}
    /\ \A k \in 1..Len(requested) : requested[k][1] \in {"http", "https"}

\* the normalized URL of the k-th anchor of the page
normalized(k) == normalizeUrl(html[k], url)

\* the normalized URL of the k-th anchor is valid and no mailto: or tel: URL
validLink(k) ==
    /\ isValidUrl(normalized(k))
    /\ ~startsWith(normalized(k), <<"mailto", ":">>)
    /\ ~startsWith(normalized(k), <<"tel", ":">>)

\* the position in the page of the first of the anchors `among` that normalizes to u
firstAnchor(u, among) ==
    CHOOSE k \in among : normalized(k) = u /\ \A j \in among : normalized(j) = u => k <= j

\* extractedLinks has no duplicates and no mailto: or tel: entry, and holds the
\* normalized URLs of the anchors `among`, ordered by first occurrence in the page
extractedFrom(among) ==
    /\ \A a, b \in Positions : extractedLinks[a] = extractedLinks[b] => a = b
    /\ \A a \in Positions :
          /\ ~startsWith(extractedLinks[a], <<"mailto", ":">>)
          /\ ~startsWith(extractedLinks[a], <<"tel", ":">>)
    /\ {extractedLinks[a] : a \in Positions} = {normalized(k) : k \in among}
    /\ \A a, b \in Positions :
          a < b => firstAnchor(extractedLinks[a], among) < firstAnchor(extractedLinks[b], among)

nth(W, j) == CHOOSE k \in W : Cardinality({m \in W : m <= k}) = j

\* the file lists, in result order, the finalUrl of the links at the positions W
lists(file, links, W) ==
    /\ Len(file) = Cardinality(W)
    /\ \A j \in 1..Len(file) : file[j] = links[nth(W, j)].finalUrl

\* C17 as stated: the export lists the finalUrl of exactly the links that are working
\* and not redirects, in result order.
C17_Original ==
    download # NoDownload =>
        LET links == response.result.links
        IN  lists(download, links,
                  {k \in 1..Len(links) : links[k].isWorking /\ ~links[k].isRedirect})

\* C17 as amended: the export lists the finalUrl of exactly the links that are
\* working, redirects included, in result order.
C17_ExportsWorkingLinks ==
    download # NoDownload =>
        LET links == response.result.links
        IN  lists(download, links, {k \in 1..Len(links) : links[k].isWorking})

\* a result with a working link, a working redirect and a broken link was exported
C17_Witness ==
    /\ download # NoDownload
    /\ response.result.workingLinks > 0
    /\ response.result.redirects > 0
    /\ response.result.brokenLinks > 0

\* C18: normalizeUrl applies its rules in priority order.  Against the base
\* https://ok.com/x/y: an href with http:// or https:// is unchanged; //moved.com/a
\* gives https://moved.com/a; /a gives https://ok.com/a; rel gives
\* https://ok.com/x/rel; a URL with a scheme of its own resolves to itself; an href
\* that does not resolve (ftp://) is returned unchanged.  The valid results are the
\* links that are extracted.
C18_NormalizeRules ==
    pageFetch = "read" =>
        \A k \in 1..Len(html) :
            LET h == html[k]
                n == normalized(k)
            IN  /\ (startsWith(h, <<"http", ":", "/", "/">>)
                      \/ startsWith(h, <<"https", ":", "/", "/">>)) => n = h
                /\ h = <<"/", "/", "moved.com", "/", "a">> =>
                      /\ n = <<"https", ":", "/", "/", "moved.com", "/", "a">>
                      /\ \E j \in Positions : extractedLinks[j] = n
                /\ h = <<"/", "a">> =>
                      /\ url = <<"https", ":", "/", "/", "ok.com", "/", "x", "/", "y">>
                      /\ n = <<"https", ":", "/", "/", "ok.com", "/", "a">>
                      /\ \E j \in Positions : extractedLinks[j] = n
                /\ h = <<"rel">> =>
                      /\ n = <<"https", ":", "/", "/", "ok.com", "/", "x", "/", "rel">>
                      /\ \E j \in Positions : extractedLinks[j] = n
                /\ h \in {<<"mailto", ":", "x">>, <<"tel", ":", "x">>, <<"javascript", ":", "x">>}
                      => n = h
                /\ h = <<"ftp", ":", "/", "/">> =>
                      /\ n = h
                      /\ ~\E j \in Positions : extractedLinks[j] = n

\* a page with a protocol-relative anchor and a relative anchor was scanned
C18_Witness ==
    /\ pageFetch = "read"
    /\ html = << <<"/", "/", "moved.com", "/", "a">>, <<"rel">> >>
    /\ Len(extractedLinks) = 2

\* the number (from 0) of the chunk of position k
chunkOf(k) == (k - 1) \div maxConcurrent

\* C19: the links are probed in input order, in consecutive chunks of at most
\* maxConcurrent (10); a probe of a later chunk is started only when every probe of
\* the chunks before it has completed.
C19_ChunkAfterChunk ==
    /\ Len(requested) <= Len(extractedLinks)
    /\ requested = SubSeq(extractedLinks, 1, Len(requested))
    /\ \A k \in 1..Len(promise) : promise[k].state # "idle" <=> k <= Len(requested)
    /\ pc = "probing" =>
          /\ i % maxConcurrent = 0
          /\ Len(requested) = min(i + maxConcurrent, Len(extractedLinks))
    /\ \A j, k \in 1..Len(promise) :
          (chunkOf(j) < chunkOf(k) /\ promise[k].state # "idle")
             => promise[j].state \in {"fulfilled", "rejected"}

\* the second chunk is in flight, after the ten probes of the first chunk completed
C19_Witness ==
    /\ Len(extractedLinks) > maxConcurrent
    /\ i = maxConcurrent
    /\ \A k \in 1..maxConcurrent : promise[k].state = "fulfilled"
    /\ \A k \in (maxConcurrent + 1)..Len(extractedLinks) : promise[k].state = "pending"

\* C20: in every step in which the 10 s timer of a probe fires, that probe, if it is
\* in flight, is reported failed by abort, and the promise and the timer of every
\* other probe are left as they are; the 15 s timer of the page fetch is no longer
\* armed when probes exist, so it aborts none.
C20_TimersAreIndependent ==
    [][ /\ \A k \in 1..Len(probeTimer) :
              (Len(probeTimer') = Len(probeTimer)
                 /\ probeTimer[k] = "armed" /\ probeTimer'[k] = "fired") =>
                 /\ \A j \in (1..Len(promise)) \ {k} :
                       /\ promise'[j] = promise[j]
                       /\ probeTimer'[j] = probeTimer[j]
                 /\ promise[k].state = "pending" =>
                       /\ promise'[k].state = "fulfilled"
                       /\ promise'[k].value.status = 0
                       /\ promise'[k].value.statusText = AbortError.message
                 /\ promise[k].state # "pending" => promise'[k] = promise[k]
        /\ (pageTimer = "armed" /\ pageTimer' = "fired") => (promise = << >> /\ promise' = << >>)
        /\ promise' # << >> => pageTimer' = "cleared"
      ]_vars

\* a probe was aborted by its timer and a probe of the same batch got its response
C20_Witness ==
    \E k, j \in Returned :
        /\ chunkOf(k) = chunkOf(j)
        /\ probeTimer[k] = "fired"
        /\ promise[k].value.statusText = AbortError.message
        /\ probeTimer[j] = "cleared"
        /\ promise[j].value.status = 200

\* the accumulated results are those of whole chunks, by position
WholeChunks ==
    /\ Len(linkResults) % maxConcurrent = 0 \/ Len(linkResults) = Len(extractedLinks)
    /\ Len(linkResults) <= Len(promise)
    /\ \A k \in 1..Len(linkResults) :
          /\ promise[k].state = "fulfilled"
          /\ linkResults[k] = promise[k].value
    /\ pc = "probing" => Len(linkResults) = i
    /\ (response.status = 200 /\ extractedLinks # << >>) =>
          /\ Len(linkResults) = Len(extractedLinks)
          /\ response.result.links = linkResults

\* C21: in every state the accumulated result sequence holds the results of whole
\* chunks only (its length is a multiple of 10 or the number of extracted links), it
\* holds by position the values the probes resolved to and so is a prefix of the
\* final links sequence, every step leaves it a prefix of its next value, and it is
\* extended only in a step before which no probe is in flight and every probe of the
\* current chunk has its result.
C21_WholeChunksOnly ==
    [][ /\ WholeChunks
        /\ WholeChunks'
        /\ Len(linkResults) <= Len(linkResults')
        /\ linkResults = SubSeq(linkResults', 1, Len(linkResults))
        /\ linkResults' # linkResults =>
              /\ InFlight = {}
              /\ \A k \in batchPositions(extractedLinks, i) : promise[k].state = "fulfilled"
              /\ Len(linkResults') = min(Len(linkResults) + maxConcurrent, Len(extractedLinks))
      ]_vars

\* the first chunk is in the results; the second has results and a probe in flight
C21_Witness ==
    /\ pc = "probing"
    /\ Len(linkResults) = maxConcurrent
    /\ Len(extractedLinks) > maxConcurrent + 1
    /\ \E k \in batchPositions(extractedLinks, i) : promise[k].state = "fulfilled"
    /\ \E k \in batchPositions(extractedLinks, i) : promise[k].state = "pending"

\* the number of rows of the shown result with the given label
rows(label) ==
    Cardinality({k \in 1..Len(response.result.links) :
                    getStatusLabel(response.result.links[k]) = label})

\* C22: for every link of a ScanResult the label of its row agrees with the bucket
\* the server counted it in (Working: isWorking and not isRedirect; Redirect:
\* isWorking and isRedirect; Broken: not isWorking), so the number of rows with each
\* label is the corresponding summary count.
C22_LabelsAgreeWithCounts ==
    response.status = 200 =>
        /\ \A k \in 1..Len(response.result.links) :
              LET link == response.result.links[k]
              IN  /\ getStatusLabel(link) = "Working"  <=> (link.isWorking /\ ~link.isRedirect)
                  /\ getStatusLabel(link) = "Redirect" <=> (link.isWorking /\ link.isRedirect)
                  /\ getStatusLabel(link) = "Broken"   <=> ~link.isWorking
        /\ rows("Working")  = response.result.workingLinks
        /\ rows("Redirect") = response.result.redirects
        /\ rows("Broken")   = response.result.brokenLinks

====
